---- MODULE Spec2Model ----
(***************************************************************************)
(* Model of europython_bot/bot.py: the Bot's course of checkpoints and its *)
(* run() method, called once per simulation tick.                          *)
(*                                                                         *)
(* Units: coordinates are in microdegrees (19.642470 deg = 19642470),      *)
(* distances, radii and jumps in kilometres.  A float that the code        *)
(* computes by a division is kept as the exact fraction num/den, or as     *)
(* one of the IEEE values inf, -inf, nan.                                  *)
(***************************************************************************)
EXTENDS Integers, Sequences, FiniteSets

VARIABLES
    course,        \* self.course: the checkpoints, each with its reached flag
    called,        \* whether run() has been called at least once
    args,          \* dt, longitude, latitude and speed of the latest run() call
    before,        \* self.course as it was when the latest call started
    instructions,  \* the Instructions the latest call returned
    raised,        \* the exception the latest call ended in, "none" if it returned
    scanned        \* the course indices the latest call's loop examined, in order

vars == <<course, called, args, before, instructions, raised, scanned>>

---------------------------------------------------------------------------
(* Bounds *)

\* The model keeps the first NumCheckpoints checkpoints of the course.
NumCheckpoints == 4

---------------------------------------------------------------------------
(* vendeeglobe's value types *)

\* Python's None, and a value that is set, as sequences of length 0 and 1.
None == <<>>
Some(x) == <<x>>

\* Checkpoint(latitude, longitude, radius): reached defaults to False.
Checkpoint(lat, lon, rad) ==
    [latitude |-> lat, longitude |-> lon, radius |-> rad, reached |-> FALSE]

\* Location(longitude, latitude)
Location(lon, lat) == [longitude |-> lon, latitude |-> lat]

\* Instructions(): every field defaults to None.
Instructions ==
    [location |-> None, heading |-> None, vector |-> None,
     left |-> None, right |-> None, sail |-> None]

\* A float given by a fraction, and the IEEE special values.
Num(n, d) == [kind |-> "num", num |-> n, den |-> d]
Inf == [kind |-> "inf", num |-> 1, den |-> 0]
NegInf == [kind |-> "-inf", num |-> -1, den |-> 0]
NaN == [kind |-> "nan", num |-> 0, den |-> 0]
ZeroDivisionError == [kind |-> "ZeroDivisionError", num |-> 0, den |-> 0]

---------------------------------------------------------------------------
(* Bot.__init__ *)

\* The first five of the 25 checkpoints of self.course, in order.
FullCourse ==
    << Checkpoint(19642470, -67647903, 50),
       Checkpoint(17547803, -67684136, 50),
       Checkpoint( 9790025, -80239573, 25),
       Checkpoint( 8211505, -79257962,  5),
       Checkpoint( 4588588, -79103848,  5) >>

InitCourse == SubSeq(FullCourse, 1, NumCheckpoints)

---------------------------------------------------------------------------
(* The telemetry the harness passes to run() *)

\* Ship positions: the start, the centre of each checkpoint, and two
\* points due north of the first checkpoint, 50 km and 75 km away.
Positions ==
    << Location( -1810000, 46494000),
       Location(-67647903, 19642470),
       Location(-67684136, 17547803),
       Location(-80239573,  9790025),
       Location(-79257962,  8211505),
       Location(-79103848,  4588588),
       Location(-67647903, 20092131),
       Location(-67647903, 20316961) >>

\* Great-circle distance in km from each position (row) to each checkpoint
\* of FullCourse (column), by the haversine formula on a sphere of 6371 km.
DistanceTable ==
    << <<6604, 6767, 8336, 8387, 8666>>,
       <<   0,  233, 1740, 1783, 2084>>,
       << 233,    0, 1606, 1627, 1903>>,
       <<1740, 1606,    0,  206,  592>>,
       <<1783, 1627,  206,    0,  403>>,
       <<2084, 1903,  592,  403,    0>>,
       <<  50,  283, 1771, 1818, 2124>>,
       <<  75,  308, 1786, 1836, 2143>> >>

Times == {0, 1}
Dts == {0, 1}
Speeds == {-100, 0, 400}
Headings == {0, 90}
Forecasts == {"calm", "gale"}
Terrains == {0, 1}

\* The heading as a vector.
HeadingVector(h) == IF h = 0 THEN <<1, 0>> ELSE <<0, 1>>

---------------------------------------------------------------------------
(* Bot.run *)

\* vendeeglobe.utils.distance_on_surface
distance_on_surface(longitude1, latitude1, longitude2, latitude2) ==
    LET p == CHOOSE k \in 1..Len(Positions) :
                 Positions[k] = Location(longitude1, latitude1)
        c == CHOOSE k \in 1..Len(FullCourse) :
                 /\ FullCourse[k].longitude = longitude2
                 /\ FullCourse[k].latitude = latitude2
    IN  DistanceTable[p][c]

\* np.linalg.norm of a scalar
norm(x) == IF x < 0 THEN -x ELSE x

\* jump = dt * np.linalg.norm(speed): a numpy float64
Jump(dt, speed) == dt * norm(speed)

\* A plain Python float divisor: division by zero raises.
PythonTrueDiv(a, b) ==
    IF b = 0 THEN ZeroDivisionError
    ELSE IF b < 0 THEN Num(-a, -b) ELSE Num(a, b)

\* a / b with b a numpy float64: division by zero warns and gives inf or nan.
TrueDiv(a, b) ==
    IF b = 0
    THEN (IF a > 0 THEN Inf ELSE IF a < 0 THEN NegInf ELSE NaN)
    ELSE IF b < 0 THEN Num(-a, -b) ELSE Num(a, b)

\* 1 < x, as Python compares floats: False for nan.
OneLess(x) ==
    CASE x.kind = "inf" -> TRUE
      [] x.kind = "num" -> x.den < x.num
      [] OTHER -> FALSE

\* min(x, 1): Python returns the second argument only if it is smaller.
Min1(x) == IF OneLess(x) THEN Num(1, 1) ELSE x

\* The sail without the min.
SailNoMin(ch, dist, jump) ==
    IF dist < 2 * ch.radius + jump
    THEN TrueDiv(ch.radius, jump)
    ELSE Num(1, 1)

\* Consider slowing down if the checkpoint is close.
Sail(ch, dist, jump) ==
    IF dist < 2 * ch.radius + jump
    THEN LET q == TrueDiv(ch.radius, jump)
         IN  IF q.kind = "ZeroDivisionError" THEN q ELSE Min1(q)
    ELSE Num(1, 1)

\* ch.reached = dist < ch.radius
AssignReached(ch, dist) == [ch EXCEPT !.reached = dist < ch.radius]

\* The checkpoint is rebuilt around the ship when it is reached.
RebuildReached(ch, dist) ==
    IF dist < ch.radius
    THEN [ch EXCEPT !.reached = TRUE, !.radius = dist]
    ELSE ch

\* The reached check with <= for <.
MarkReachedInclusive(ch, dist) ==
    IF dist <= ch.radius THEN [ch EXCEPT !.reached = TRUE] ELSE ch

\* Check if the checkpoint has been reached.
MarkReached(ch, dist) ==
    IF dist < ch.radius THEN [ch EXCEPT !.reached = TRUE] ELSE ch

\* The test for the break made on the flag as it was before the check.
StopOnOldFlag(old, new) == ~old.reached

\* The break is missing: the loop goes on to the end of the course.
NeverStop(old, new) == FALSE

\* if not ch.reached: ch is the checkpoint after the check; old is before it.
Stop(old, new) == ~new.reached

\* Location with its arguments swapped.
SwappedTarget(ch) == Location(ch.latitude, ch.longitude)

\* Location(longitude = ch.longitude, latitude = ch.latitude)
Target(ch) == Location(ch.longitude, ch.latitude)

\* The sail is kept once it is set.
KeepSail(ins, s) == IF ins.sail = None THEN [ins EXCEPT !.sail = Some(s)] ELSE ins

\* instructions.sail = ...
SetSail(ins, s) == [ins EXCEPT !.sail = Some(s)]

\* After the last checkpoint the target is still the last checkpoint.
ExhaustedAtLast(c, ins, seen) ==
    [course |-> c,
     instructions |-> [ins EXCEPT !.location = Some(Target(c[Len(c)]))],
     raised |-> "none", scanned |-> seen]

\* The loop ran out of checkpoints: return instructions, as they are.
Exhausted(c, ins, seen) ==
    [course |-> c, instructions |-> ins, raised |-> "none", scanned |-> seen]

\* The for loop from index i on: c is the course so far, ins the
\* instructions so far, seen the indices examined so far.
RECURSIVE Scan(_, _, _, _, _, _, _, _)
Scan(c, i, ins, seen, longitude, latitude, dt, speed) ==
    IF i > Len(c)
    THEN Exhausted(c, ins, seen)
    ELSE
      LET ch == c[i]
          dist == distance_on_surface(longitude, latitude, ch.longitude, ch.latitude)
          jump == Jump(dt, speed)
          s == Sail(ch, dist, jump)
      IN  IF s.kind = "ZeroDivisionError"
          THEN [course |-> c, instructions |-> Instructions,
                raised |-> "ZeroDivisionError", scanned |-> Append(seen, i)]
          ELSE
            LET ins1 == SetSail(ins, s)
                ch1 == MarkReached(ch, dist)
                c1 == [c EXCEPT ![i] = ch1]
            IN  IF Stop(ch, ch1)
                THEN [course |-> c1,
                      instructions |-> [ins1 EXCEPT !.location = Some(Target(ch1))],
                      raised |-> "none", scanned |-> Append(seen, i)]
                ELSE Scan(c1, i + 1, ins1, Append(seen, i), longitude, latitude, dt, speed)

\* run() that stops the ship on land.
runOnLand(self, t, dt, longitude, latitude, heading, speed, vector, forecast, world_map) ==
    LET r == Scan(self, 1, Instructions, <<>>, longitude, latitude, dt, speed)
    IN  IF world_map = 0 /\ r.raised = "none"
        THEN [r EXCEPT !.instructions.sail = Some(Num(0, 1))]
        ELSE r

\* Bot.run: self is self.course; forecast and world_map are what the two
\* queries return for the ship's position.  The results of the queries are
\* bound to locals that are never read.
run(self, t, dt, longitude, latitude, heading, speed, vector, forecast, world_map) ==
    LET current_position_forecast == forecast
        current_position_terrain == world_map
    IN  Scan(self, 1, Instructions, <<>>, longitude, latitude, dt, speed)

---------------------------------------------------------------------------
(* The state machine *)

\* What is kept of a call's arguments.  t, heading, vector and the results of
\* the two queries are drawn afresh for every call and are not kept.
Args(dt, p, speed) ==
    [dt |-> dt, longitude |-> p.longitude, latitude |-> p.latitude, speed |-> speed]

Init ==
    /\ course = InitCourse
    /\ called = FALSE
    /\ args = Args(0, Positions[1], 0)
    /\ before = InitCourse
    /\ instructions = Instructions
    /\ raised = "none"
    /\ scanned = <<>>

\* The harness calls run() for one tick.
Run ==
    \E t \in Times, dt \in Dts, k \in 1..Len(Positions), heading \in Headings,
       speed \in Speeds, forecast \in Forecasts, world_map \in Terrains :
        \E r \in { run(course, t, dt, Positions[k].longitude, Positions[k].latitude,
                       heading, speed, HeadingVector(heading), forecast, world_map) } :
            /\ called' = TRUE
            /\ args' = Args(dt, Positions[k], speed)
            /\ before' = course
            /\ course' = r.course
            /\ instructions' = r.instructions
            /\ raised' = r.raised
            /\ scanned' = r.scanned

Next == Run

Spec == Init /\ [][Next]_vars

---------------------------------------------------------------------------
(* What the latest call saw *)

\* The distance the latest call computed to checkpoint i.
DistTo(i) ==
    distance_on_surface(args.longitude, args.latitude,
                        before[i].longitude, before[i].latitude)

\* The coordinates of a checkpoint, as a target location carries them.
LocationOf(ch) == [longitude |-> ch.longitude, latitude |-> ch.latitude]

\* The jump of the latest call.
LastJump == Jump(args.dt, args.speed)

\* Checkpoints 1..i-1 were reached when the latest call started.
PrefixReached(i) == \A j \in 1..(i - 1) : before[j].reached

\* The latest call marked checkpoint i.
JustReached(i) == ~before[i].reached /\ course[i].reached

\* Two floats are the same number.
SameFloat(a, b) == a.kind = b.kind /\ a.num * b.den = b.num * a.den

\* A float is a number in [0, 1].
InUnitInterval(x) == x.kind = "num" /\ x.den > 0 /\ 0 <= x.num /\ x.num <= x.den

\* The checkpoints after i that the latest call neither found reached nor
\* marked.
OpenAfter(i) ==
    { j \in (i + 1)..Len(before) :
        ~before[j].reached /\ ~(DistTo(j) < before[j].radius) }

\* The least element of a non-empty set of indices.
Least(S) == CHOOSE j \in S : \A k \in S : j <= k

---------------------------------------------------------------------------
(* C1 *)

\* C1: once a checkpoint's reached flag is true, no run() call sets it back
\* to false.
C1_ReachedMonotonic ==
    [][\A i \in DOMAIN course :
         course[i].reached => (i \in DOMAIN course' /\ course'[i].reached)]_vars

\* A call made with the ship outside the radius of a checkpoint that was
\* already reached, which is still reached after the call.
C1_Witness ==
    /\ called
    /\ \E i \in DOMAIN course :
         /\ before[i].reached
         /\ DistTo(i) >= before[i].radius
         /\ course[i].reached

---------------------------------------------------------------------------
(* C2 *)

\* C2 as stated: if checkpoints before i are reached and the ship is within
\* the radius of i, the call marks i reached and the target, if any, is
\* checkpoint i+1.
C2_TargetIsNext ==
    called =>
      \A i \in DOMAIN before :
        (PrefixReached(i) /\ DistTo(i) < before[i].radius) =>
          /\ course[i].reached
          /\ instructions.location # None =>
               /\ i < Len(before)
               /\ instructions.location = Some(LocationOf(before[i + 1]))

\* C2, amended: if checkpoints before i are reached and the ship is within
\* the radius of i, the call marks i reached and the target, if any, is the
\* first checkpoint after i that was not reached at the start of the call
\* and whose radius the ship is not within; there is no target exactly when
\* there is no such checkpoint.  It is checkpoint i+1 when i+1 was unreached
\* and the ship is not within its radius.
C2_TargetIsNextOpen ==
    called =>
      \A i \in DOMAIN before :
        (PrefixReached(i) /\ DistTo(i) < before[i].radius) =>
          /\ course[i].reached
          /\ IF OpenAfter(i) = {}
             THEN instructions.location = None
             ELSE instructions.location = Some(LocationOf(before[Least(OpenAfter(i))]))
          /\ (i + 1) \in OpenAfter(i) =>
               instructions.location = Some(LocationOf(before[i + 1]))

\* The call marked the first unreached checkpoint i and returned i+1.
C2_Witness ==
    /\ called
    /\ \E i \in 1..(Len(before) - 1) :
         /\ PrefixReached(i)
         /\ DistTo(i) < before[i].radius
         /\ JustReached(i)
         /\ instructions.location = Some(LocationOf(before[i + 1]))

---------------------------------------------------------------------------
(* C3 *)

\* C3: the sail of the returned Instructions lies in [0, 1].
C3_SailInUnitInterval ==
    called =>
      /\ raised = "none"
      /\ instructions.sail # None
      /\ InUnitInterval(instructions.sail[1])

\* A call that throttled: its sail is strictly between 0 and 1.
C3_Witness ==
    /\ called
    /\ instructions.sail # None
    /\ instructions.sail[1].kind = "num"
    /\ 0 < instructions.sail[1].num
    /\ instructions.sail[1].num < instructions.sail[1].den

---------------------------------------------------------------------------
(* C4 *)

\* C4: with speed == 0 and dt > 0 the call raises no division error and
\* returns a sail that is a finite number, the same for the same inputs.
C4_ZeroJumpNoError ==
    (called /\ args.speed = 0 /\ args.dt > 0) =>
      /\ raised = "none"
      /\ instructions.sail # None
      /\ instructions.sail[1].kind = "num"
      /\ instructions.sail[1].den > 0
      /\ \A t \in Times, h \in Headings, f \in Forecasts, m \in Terrains :
           run(before, t, args.dt, args.longitude, args.latitude, h,
               args.speed, HeadingVector(h), f, m).instructions.sail
             = instructions.sail

\* A call with speed == 0 and dt > 0 whose last checkpoint examined was
\* within 2*radius, so that radius / jump was computed with jump == 0.
C4_Witness ==
    /\ called
    /\ args.speed = 0
    /\ args.dt > 0
    /\ scanned # <<>>
    /\ DistTo(scanned[Len(scanned)]) < 2 * before[scanned[Len(scanned)]].radius

---------------------------------------------------------------------------
(* C5 *)

\* C5: when every checkpoint is reached after the call, the returned
\* Instructions carries no target location (nor any other steering field).
C5_NoTargetWhenComplete ==
    (called /\ \A i \in DOMAIN course : course[i].reached) =>
      /\ instructions.location = None
      /\ instructions.heading = None
      /\ instructions.vector = None
      /\ instructions.left = None
      /\ instructions.right = None

\* The call that marked the last checkpoint of the course.
C5_Witness ==
    /\ called
    /\ \A i \in DOMAIN course : course[i].reached
    /\ JustReached(Len(course))
    /\ instructions.location = None

---------------------------------------------------------------------------
(* C6 *)

\* C6: if checkpoint k is the first unreached one and the ship is far from
\* it (dist >= 2*radius + jump), the call returns sail 1.0 and the location
\* of checkpoint k, and k stays unreached.
C6_FarFullSail ==
    called =>
      \A k \in DOMAIN before :
        (PrefixReached(k) /\ ~before[k].reached
           /\ DistTo(k) >= 2 * before[k].radius + LastJump) =>
          /\ instructions.sail # None
          /\ SameFloat(instructions.sail[1], Num(1, 1))
          /\ instructions.location = Some(LocationOf(before[k]))
          /\ ~course[k].reached

\* The far case for a first unreached checkpoint other than the first of
\* the course, with the ship inside the throttle zone of a reached one.
C6_Witness ==
    /\ called
    /\ \E k \in 2..Len(before) :
         /\ PrefixReached(k)
         /\ ~before[k].reached
         /\ DistTo(k) >= 2 * before[k].radius + LastJump
         /\ LastJump > before[k - 1].radius
         /\ DistTo(k - 1) < before[k - 1].radius
         /\ instructions.location = Some(LocationOf(before[k]))

---------------------------------------------------------------------------
(* C7 *)

\* The index of the checkpoint the latest call returned as its target: the
\* last one it examined.
TargetIndex == scanned[Len(scanned)]

\* The latest call marked a checkpoint and went on to a target.
ReachedAndWentOn ==
    /\ called
    /\ instructions.location # None
    /\ \E i \in DOMAIN before : JustReached(i)

\* C7 as stated: on a tick in which a checkpoint is just marked reached and
\* the scan continues to a new target, the sail is the throttle computed
\* against the just-reached checkpoint.
C7_SailOfOldCheckpoint ==
    ReachedAndWentOn =>
      \A i \in DOMAIN before :
        JustReached(i) =>
          /\ instructions.sail # None
          /\ SameFloat(instructions.sail[1],
                       Sail(before[i], DistTo(i), LastJump))

\* C7, amended: on a tick in which a checkpoint is just marked reached and
\* the scan continues to a new target, the sail is the throttle computed
\* against the new target checkpoint, the last one the scan examined.
C7_SailOfNewTarget ==
    ReachedAndWentOn =>
      /\ instructions.location = Some(LocationOf(before[TargetIndex]))
      /\ \A i \in DOMAIN before : JustReached(i) => i < TargetIndex
      /\ instructions.sail # None
      /\ SameFloat(instructions.sail[1],
                   Sail(before[TargetIndex], DistTo(TargetIndex), LastJump))

\* A tick that marked a checkpoint and went on to a target, where the
\* throttle against the marked checkpoint differs from the one against the
\* target.
C7_Witness ==
    /\ ReachedAndWentOn
    /\ \E i \in DOMAIN before :
         /\ JustReached(i)
         /\ ~SameFloat(Sail(before[i], DistTo(i), LastJump),
                       Sail(before[TargetIndex], DistTo(TargetIndex), LastJump))

---------------------------------------------------------------------------
(* C8 *)

\* C8: a call with the same telemetry as the call before it returns the
\* same Instructions and leaves the reached flags as that call left them.
C8_Idempotent ==
    [][(called /\ args' = args) =>
         /\ instructions' = instructions
         /\ raised' = raised
         /\ course' = course]_vars

\* A call that changed nothing, made at the position where the checkpoint
\* just before its target was marked.
C8_Witness ==
    /\ called
    /\ before = course
    /\ instructions.location # None
    /\ TargetIndex > 1
    /\ DistTo(TargetIndex - 1) < before[TargetIndex - 1].radius

---------------------------------------------------------------------------
(* C9 *)

\* C9: the course keeps its length and order, and every checkpoint its
\* latitude, longitude and radius.
C9_CourseFrame ==
    /\ Len(course) = Len(InitCourse)
    /\ \A i \in DOMAIN course :
         /\ course[i].latitude = InitCourse[i].latitude
         /\ course[i].longitude = InitCourse[i].longitude
         /\ course[i].radius = InitCourse[i].radius

\* A call that marked a checkpoint and left its radius as constructed.
C9_Witness ==
    /\ called
    /\ \E i \in DOMAIN course :
         /\ JustReached(i)
         /\ course[i].radius = InitCourse[i].radius

---------------------------------------------------------------------------
(* C10 *)

\* The vectors the harness may pass.
Vectors == { HeadingVector(h) : h \in Headings }

\* C10: the call's Instructions and the course it leaves are the same for
\* every t, heading, vector, forecast result and world_map result.
C10_IgnoresQueries ==
    called =>
      \A t \in Times, h \in Headings, v \in Vectors,
         f \in Forecasts, m \in Terrains :
        \E r \in { run(before, t, args.dt, args.longitude, args.latitude,
                       h, args.speed, v, f, m) } :
          /\ r.instructions = instructions
          /\ r.course = course
          /\ r.raised = raised

\* A call that marked a checkpoint and returned a throttled sail.
C10_Witness ==
    /\ ReachedAndWentOn
    /\ instructions.sail # None
    /\ instructions.sail[1].num < instructions.sail[1].den

---------------------------------------------------------------------------
(* C11 *)

\* The checkpoints left unreached by the latest call.
UnreachedAfter == { i \in DOMAIN course : ~course[i].reached }

\* C11: the target location is the coordinates of the first checkpoint in
\* course order that is unreached after the call, and there is a target
\* exactly when some checkpoint is unreached after the call.
C11_TargetIsFirstUnreached ==
    called =>
      IF UnreachedAfter = {}
      THEN instructions.location = None
      ELSE instructions.location = Some(LocationOf(course[Least(UnreachedAfter)]))

\* A call that marked a checkpoint and returned the one after it, with a
\* further unreached checkpoint behind the target.
C11_Witness ==
    /\ called
    /\ \E i \in DOMAIN course :
         /\ JustReached(i)
         /\ (i + 2) \in UnreachedAfter
         /\ instructions.location = Some(LocationOf(course[i + 1]))

---------------------------------------------------------------------------
(* C12 *)

\* The throttle policy: min(radius / jump, 1) inside the zone
\* dist < 2*radius + jump, 1.0 outside it.  With jump == 0 the quotient is
\* +inf and the min is 1.
Throttle(ch, dist, jump) ==
    IF dist < 2 * ch.radius + jump /\ jump > 0 /\ ch.radius < jump
    THEN Num(ch.radius, jump)
    ELSE Num(1, 1)

\* The index of the checkpoint whose coordinates a location carries.
IndexOfLocation(loc) == CHOOSE i \in DOMAIN before : LocationOf(before[i]) = loc

\* The last checkpoint of the latest call's scan, told from what it
\* returned: the target when there is one, else the end of the course.
LastExamined ==
    IF instructions.location # None
    THEN IndexOfLocation(instructions.location[1])
    ELSE Len(before)

\* C12: the sail is the throttle policy evaluated on the last checkpoint
\* examined, whatever was computed for the checkpoints scanned before it.
C12_SailOfLastExamined ==
    called =>
      /\ instructions.sail # None
      /\ SameFloat(instructions.sail[1],
                   Throttle(before[LastExamined], DistTo(LastExamined), LastJump))

\* A call on a completed course that throttled against the final
\* checkpoint, after computing full sail for the first one.
C12_Witness ==
    /\ called
    /\ instructions.location = None
    /\ instructions.sail # None
    /\ instructions.sail[1].num < instructions.sail[1].den
    /\ SameFloat(Throttle(before[1], DistTo(1), LastJump), Num(1, 1))

---------------------------------------------------------------------------
(* C13 *)

\* C13: the reached checkpoints form a prefix of the course.
C13_ReachedIsPrefix ==
    \A i \in DOMAIN course : \A j \in DOMAIN course :
        (i < j /\ course[j].reached) => course[i].reached

\* A call made inside the radius of a checkpoint that has an unreached
\* checkpoint before it: it is left unreached.
C13_Witness ==
    /\ called
    /\ \E i \in DOMAIN course : \E j \in DOMAIN course :
         /\ i < j
         /\ ~course[i].reached
         /\ DistTo(j) < before[j].radius
         /\ ~course[j].reached

---------------------------------------------------------------------------
(* C14 *)

\* The checkpoints unreached when the latest call started.
UnreachedBefore == { i \in DOMAIN before : ~before[i].reached }

\* The maximal consecutive run of checkpoints, from the first unreached
\* one, with dist < radius.
ReachedRun ==
    IF UnreachedBefore = {}
    THEN {}
    ELSE { j \in Least(UnreachedBefore)..Len(before) :
             \A k \in Least(UnreachedBefore)..j : DistTo(k) < before[k].radius }

\* C14: the call turns from false to true exactly the flags of ReachedRun and
\* leaves every other flag as it was.
C14_MarksExactlyTheRun ==
    called =>
      \A i \in DOMAIN before :
        /\ JustReached(i) <=> i \in ReachedRun
        /\ i \notin ReachedRun => course[i].reached = before[i].reached

\* A call with the ship exactly on the radius of the first unreached
\* checkpoint (dist == radius): nothing is marked.
C14_Witness ==
    /\ called
    /\ UnreachedBefore # {}
    /\ DistTo(Least(UnreachedBefore)) = before[Least(UnreachedBefore)].radius
    /\ ReachedRun = {}
    /\ course = before

---------------------------------------------------------------------------
(* C15 *)

\* The course index of the latest call's target, one past the end of the
\* course when it returned no target.
TargetOrEnd(ins, c) ==
    IF ins.location = None
    THEN Len(c) + 1
    ELSE CHOOSE i \in DOMAIN c : LocationOf(c[i]) = ins.location[1]

\* C15: from one call to the next the index of the target never decreases,
\* and after a call with no target every call has no target.
C15_TargetNeverGoesBack ==
    [][called =>
         /\ TargetOrEnd(instructions, course) <= TargetOrEnd(instructions', course')
         /\ instructions.location = None => instructions'.location = None]_vars

\* A call made outside the radius of a checkpoint reached earlier, which
\* lies before the target it returns.
C15_Witness ==
    /\ called
    /\ instructions.location # None
    /\ \E i \in DOMAIN before :
         /\ before[i].reached
         /\ DistTo(i) >= before[i].radius
         /\ i < TargetOrEnd(instructions, course)

---------------------------------------------------------------------------
(* C16 *)

\* C16: the call returns, having examined checkpoints 1, 2, ... in course
\* order, each once, up to the first one left unreached, or to the end of
\* the course when none is left unreached.
C16_ScanIsBoundedPrefix ==
    called =>
      /\ raised = "none"
      /\ Len(scanned) <= Len(course)
      /\ \A k \in DOMAIN scanned : scanned[k] = k
      /\ Len(scanned) =
           (IF UnreachedAfter = {} THEN Len(course) ELSE Least(UnreachedAfter))

\* A call that passed a reached checkpoint, marked the next and stopped at
\* the one after it, short of the end of the course.
C16_Witness ==
    /\ called
    /\ Len(scanned) = 3
    /\ Len(scanned) < Len(course)
    /\ before[1].reached
    /\ JustReached(2)

====
